---- MODULE Spec2Model ----
(***************************************************************************)
(* A model of pixelhouse's Canvas (src/pixelhouse/canvas.py): the pixel    *)
(* buffer, its construction, blank/combine/overlay/cv2_draw/load/save/     *)
(* rescale, and the coordinate transform transform_kernel_length.          *)
(*                                                                         *)
(* numpy arrays are modelled as a shape plus flat row-major data; canvases *)
(* refer to their arrays through a heap of buffers, so that in-place       *)
(* writes, rebinding of self._img and aliasing are distinguishable.        *)
(* float64 arithmetic is modelled exactly: a double x >= 0 is the natural  *)
(* number x * 2^FracBits held in limbs, rounded to 53 significant bits,    *)
(* ties to even, after every operation.                                    *)
(***************************************************************************)
EXTENDS Integers, Sequences, FiniteSets, TLC

(***************************************************************************)
(* Natural numbers of arbitrary size: little-endian limbs, no leading zero *)
(* limb, <<>> is 0.                                                        *)
(***************************************************************************)
LimbBits == 15

Limb == 2^LimbBits

Pow2(n) == 2^n

Max(a, b) == IF a >= b THEN a ELSE b

Min(a, b) == IF a <= b THEN a ELSE b

Head0(a) == IF a = <<>> THEN 0 ELSE Head(a)

Tail0(a) == IF a = <<>> THEN <<>> ELSE Tail(a)

RECURSIVE BNorm(_)
BNorm(a) ==
    IF a = <<>> THEN <<>>
    ELSE IF a[Len(a)] = 0 THEN BNorm(SubSeq(a, 1, Len(a) - 1))
    ELSE a

BFromNat(n) ==
    IF n = 0 THEN <<>>
    ELSE IF n < Limb THEN <<n>>
    ELSE IF n < Limb * Limb THEN <<n % Limb, n \div Limb>>
    ELSE <<n % Limb, (n \div Limb) % Limb, n \div (Limb * Limb)>>

RECURSIVE BToNat(_)
BToNat(a) == IF a = <<>> THEN 0 ELSE Head(a) + Limb * BToNat(Tail(a))

RECURSIVE BAddC(_, _, _)
BAddC(a, b, carry) ==
    IF a = <<>> /\ b = <<>>
    THEN (IF carry = 0 THEN <<>> ELSE <<carry>>)
    ELSE LET x == Head0(a) + Head0(b) + carry
         IN  <<x % Limb>> \o BAddC(Tail0(a), Tail0(b), x \div Limb)

BAdd(a, b) == BAddC(a, b, 0)

RECURSIVE BMulSmallC(_, _, _)
BMulSmallC(a, d, carry) ==
    IF a = <<>>
    THEN (IF carry = 0 THEN <<>> ELSE <<carry>>)
    ELSE LET x == Head(a) * d + carry
         IN  <<x % Limb>> \o BMulSmallC(Tail(a), d, x \div Limb)

BMulSmall(a, d) == IF d = 0 THEN <<>> ELSE BMulSmallC(a, d, 0)

\* a * Limb^k
BShiftLimbs(a, k) == IF a = <<>> THEN <<>> ELSE [i \in 1..k |-> 0] \o a

RECURSIVE BMul(_, _)
BMul(a, b) ==
    IF a = <<>> \/ b = <<>> THEN <<>>
    ELSE BAdd(BMulSmall(a, Head(b)), BShiftLimbs(BMul(a, Tail(b)), 1))

RECURSIVE NatBitLen(_)
NatBitLen(n) == IF n = 0 THEN 0 ELSE 1 + NatBitLen(n \div 2)

BBitLen(a) == IF a = <<>> THEN 0 ELSE LimbBits * (Len(a) - 1) + NatBitLen(a[Len(a)])

\* bit i (0 = least significant) of a
BBit(a, i) ==
    LET k == i \div LimbBits + 1
    IN  IF k > Len(a) THEN 0 ELSE (a[k] \div Pow2(i % LimbBits)) % 2

\* TRUE iff a has no set bit below position s
BLowZero(a, s) ==
    LET k == s \div LimbBits
        r == s % LimbBits
    IN  /\ \A i \in 1..Min(k, Len(a)) : a[i] = 0
        /\ (k + 1 <= Len(a) => a[k + 1] % Pow2(r) = 0)

\* floor(a / 2^s)
BShR(a, s) ==
    LET k == s \div LimbBits
        r == s % LimbBits
        n == Len(a) - k
        at(i) == IF i <= Len(a) THEN a[i] ELSE 0
    IN  IF n <= 0 THEN <<>>
        ELSE BNorm([i \in 1..n |->
                 at(i + k) \div Pow2(r) + (at(i + k + 1) % Pow2(r)) * Pow2(LimbBits - r)])

\* a * 2^s
BShL(a, s) == BShiftLimbs(BMulSmall(a, Pow2(s % LimbBits)), s \div LimbBits)

\* <<floor(a / d), a mod d>> for a small divisor d (long division from the top limb)
RECURSIVE BDivSmallR(_, _)
BDivSmallR(a, d) ==
    IF a = <<>> THEN <<<<>>, 0>>
    ELSE LET hi == BDivSmallR(Tail(a), d)
             x  == hi[2] * Limb + Head(a)
         IN  <<(<<x \div d>> \o hi[1]), x % d>>

BDivSmall(a, d) == LET qr == BDivSmallR(a, d) IN <<BNorm(qr[1]), qr[2]>>

\* a - b for a >= b
RECURSIVE BSubC(_, _, _)
BSubC(a, b, borrow) ==
    IF a = <<>> THEN <<>>
    ELSE LET x == Head(a) - Head0(b) - borrow
         IN  IF x < 0 THEN <<x + Limb>> \o BSubC(Tail(a), Tail0(b), 1)
             ELSE <<x>> \o BSubC(Tail(a), Tail0(b), 0)

BSub(a, b) == BNorm(BSubC(a, b, 0))

(***************************************************************************)
(* float64.  The double x >= 0 is held as the natural x * 2^FracBits.      *)
(* Every value the canvas code computes lies in [2^-17, 2^11] or is 0, so  *)
(* no rounded result has a bit below 2^-FracBits and none overflows.       *)
(***************************************************************************)
Mantissa == 53

FracLimbs == 5

FracBits == FracLimbs * LimbBits

\* round to nearest, ties to even, keeping Mantissa significant bits
Round53(a) ==
    LET len == BBitLen(a)
        s   == len - Mantissa
    IN  IF s <= 0 THEN a
        ELSE LET q    == BShR(a, s)
                 up   == /\ BBit(a, s - 1) = 1
                         /\ (~BLowZero(a, s - 1) \/ BBit(q, 0) = 1)
             IN  BShL(IF up THEN BAdd(q, <<1>>) ELSE q, s)

FFromInt(n) == BShiftLimbs(BFromNat(n), FracLimbs)

\* x * y, one rounding
FMul(x, y) == BShR(Round53(BMul(x, y)), FracBits)

\* x + y, one rounding
FAdd(x, y) == Round53(BAdd(x, y))

\* x * y + z with a single rounding (a fused multiply-add)
FFma(x, y, z) == BShR(Round53(BAdd(BMul(x, y), BShiftLimbs(z, FracLimbs))), FracBits)

\* the double nearest to p / q, for naturals p and q > 0
FDivInt(p, q) ==
    LET qr == BDivSmall(BShiftLimbs(BFromNat(p), 2 * FracLimbs), q)
        qs == IF qr[2] = 0 THEN qr[1] ELSE BAdd(BShL(qr[1], 1), <<1>>)
    IN  IF qr[2] = 0 THEN BShR(Round53(qs), FracBits)
        ELSE BShR(Round53(qs), FracBits + 1)

\* int(x): truncation
FTrunc(x) == BToNat(BShR(x, FracBits))

(***************************************************************************)
(* Model bounds and input sets.                                            *)
(***************************************************************************)
\* canvas variables of the calling program
NumCanvas == 2

\* largest width and height of a buffer
MaxDim == 2

\* operations in one run
MaxOps == 3

CanvasIds == 1..NumCanvas

\* self, rhs, the layer of cv2_draw and the array overlay allocates
BufIds == 1..(NumCanvas + 2)

Byte == 0..255

\* the value of a call that returns nothing, and of an unbound canvas variable
None == 0

Free == [shape |-> <<>>, data |-> <<>>]

NoCanvas == [img |-> None, bg |-> [name |-> "", seq |-> <<>>], extent |-> 0]

NoCall == [self |-> None, mode |-> "", layer |-> Free, base |-> Free, err |-> "", ret |-> None]

(***************************************************************************)
(* numpy arrays: shape (height, width, channels) and row-major pixels.     *)
(***************************************************************************)
Array(h, w, c, px) == [shape |-> <<h, w, c>>, data |-> [k \in 1..(h * w) |-> px]]

Height(a) == a.shape[1]

Width(a) == a.shape[2]

Channels(a) == a.shape[3]

IsEmpty(a) == Height(a) = 0 \/ Width(a) = 0

\* astype(np.uint8) of an integer
AsUint8(v) == v % 256

\* cv2's saturate_cast<uchar> of an integer
Saturate(v) == IF v < 0 THEN 0 ELSE IF v > 255 THEN 255 ELSE v

(***************************************************************************)
(* Colours.  A colour argument is a name or a sequence of 3 or 4 channels. *)
(***************************************************************************)
Named(n) == [name |-> n, seq |-> <<>>]

Explicit(q) == [name |-> "", seq |-> q]

\* color.matplotlib_colors: the named colour table
matplotlib_colors(n) ==
    CASE n = "black" -> <<0, 0, 0>>
      [] n = "white" -> <<255, 255, 255>>

transform_color(c) ==
    LET q == IF c.name # "" THEN matplotlib_colors(c.name) ELSE c.seq
    IN  IF Len(q) = 3 THEN q \o <<255>> ELSE q

(***************************************************************************)
(* The heap of arrays.  A canvas holds the id of its array (self._img).    *)
(***************************************************************************)
Alloc(hp) == CHOOSE b \in BufIds : hp[b] = Free /\ \A x \in BufIds : hp[x] = Free => b <= x

ImgOf(cv, hp, c) == hp[cv[c].img]

\* Arrays no canvas refers to are released; ids are renamed so that the
\* array of canvas c has id c unless an earlier canvas holds the same array.
Collect(cv, hp) ==
    LET owner(b) == CHOOSE c \in CanvasIds :
                        cv[c].img = b /\ \A d \in CanvasIds : cv[d].img = b => c <= d
        cv2 == [c \in CanvasIds |->
                   IF cv[c].img = None THEN cv[c]
                   ELSE [cv[c] EXCEPT !.img = owner(cv[c].img)]]
        hp2 == [b \in BufIds |->
                   IF b \in CanvasIds /\ cv[b].img # None /\ owner(cv[b].img) = b
                   THEN hp[cv[b].img] ELSE Free]
    IN  [cv |-> cv2, hp |-> hp2]

(***************************************************************************)
(* Canvas.__init__                                                         *)
(***************************************************************************)
\* np.zeros((height, width, channels), np.uint8) raises on a negative dimension
ZerosFails(h, w) == h < 0 \/ w < 0

\* the fill pixel: the background with its alpha forced to 0
BgPixel(bg) ==
    LET q == [i \in 1..4 |-> AsUint8(transform_color(bg)[i])]
    IN  [q EXCEPT ![4] = 0]

DefaultExtent == 4

\* Canvas(width, height, extent, bg): the new object and the heap holding its array
NewCanvas(hp, w, h, e, bg) ==
    IF ZerosFails(h, w)
    THEN [err |-> "ValueError", obj |-> NoCanvas, hp |-> hp]
    ELSE LET b == Alloc(hp)
         IN  [err |-> "",
              obj |-> [img |-> b, bg |-> bg, extent |-> e],
              hp  |-> [hp EXCEPT ![b] = Array(h, w, 4, BgPixel(bg))]]

(***************************************************************************)
(* Canvas.blank                                                            *)
(***************************************************************************)
NoBg == Named("")

\* self.blank(bg): Canvas(self.width, self.height, bg=bg)
BlankOf(hp, self, bg) ==
    LET use == IF bg = NoBg THEN self.bg ELSE bg
    IN  NewCanvas(hp, Width(hp[self.img]), Height(hp[self.img]), DefaultExtent, use)

(***************************************************************************)
(* Canvas.overlay                                                          *)
(***************************************************************************)
\* dx = 1 / 255.0
Dx == FDivInt(1, 255)

\* (uint8 array * dx): the double b * dx of every byte b
ByteTimesDx == [b \in Byte |-> FMul(FFromInt(b), Dx)]

\* cv2.addWeighted(x, alpha, y, beta, gamma) on doubles: x*alpha + y*beta + gamma,
\* evaluated with separate roundings ("plain") or with fused multiply-adds
\* ("fma"), whichever the OpenCV build uses.
AddWeighted(x, alpha, y, beta, gamma, bld) ==
    IF bld = "fma"
    THEN FFma(x, alpha, FFma(y, beta, gamma))
    ELSE FAdd(FAdd(FMul(x, alpha), FMul(y, beta)), gamma)

\* np.uint8 of a double in [0, 256): truncation
Uint8OfFloat(x) == AsUint8(FTrunc(x))

\* one colour channel of the blend: face f, overlay v, overlay alpha a
Blend(f, v, a, bld) ==
    LET overlay_mask    == a
        background_mask == AsUint8(255 - overlay_mask)
        overlay_part    == FMul(ByteTimesDx[v], ByteTimesDx[overlay_mask])
        face_part       == FMul(ByteTimesDx[f], ByteTimesDx[background_mask])
    IN  Uint8OfFloat(AddWeighted(face_part, FFromInt(255), overlay_part, FFromInt(255),
                                 FFromInt(0), bld))

Clip(v, lo, hi) == IF v < lo THEN lo ELSE IF v > hi THEN hi ELSE v

\* np.clip(self.img[:,:,3] + rhs.img[:,:,3], 0, 255): the sum is a uint8 sum
MergedAlpha(a, b) == Clip(AsUint8(a + b), 0, 255)

OverlayPixel(f, v, bld) ==
    << Blend(f[1], v[1], v[4], bld), Blend(f[2], v[2], v[4], bld),
       Blend(f[3], v[3], v[4], bld), MergedAlpha(f[4], v[4]) >>

\* self.overlay(rhs): self._img is rebound to a new array
Overlay(hp, self, rhs, bld) ==
    LET s == hp[self.img]
        r == hp[rhs.img]
    IN  IF Channels(s) < 4 \/ Channels(r) < 4
        THEN [err |-> "IndexError", self |-> self, hp |-> hp]
        ELSE IF IsEmpty(r)
        THEN [err |-> "cv2.error", self |-> self, hp |-> hp]
        ELSE LET b == Alloc(hp)
                 a == [shape |-> <<Height(s), Width(s), 4>>,
                       data  |-> [k \in DOMAIN s.data |-> OverlayPixel(s.data[k], r.data[k], bld)]]
             IN  [err |-> "", self |-> [self EXCEPT !.img = b], hp |-> [hp EXCEPT ![b] = a]]

(***************************************************************************)
(* Canvas.combine                                                          *)
(***************************************************************************)
\* cv2.add / cv2.subtract of two uint8 arrays: per channel, saturating
Cv2Arith(s, r, sign) ==
    [s EXCEPT !.data = [k \in DOMAIN s.data |->
        [i \in 1..Channels(s) |-> Saturate(s.data[k][i] + sign * r.data[k][i])]]]

\* a faulty variant: the result is written into the array of rhs
Cv2IntoRhs(hp, self, rhs, sign) ==
    LET s == hp[self.img]
        r == hp[rhs.img]
    IN  IF Channels(s) # Channels(r)
        THEN [err |-> "cv2.error", self |-> self, hp |-> hp]
        ELSE [err |-> "", self |-> self, hp |-> [hp EXCEPT ![rhs.img] = Cv2Arith(s, r, sign)]]

\* cv2.add(self._img, rhs.img, self._img): written into the array of self
Cv2Into(hp, self, rhs, sign) ==
    LET s == hp[self.img]
        r == hp[rhs.img]
    IN  IF Channels(s) # Channels(r)
        THEN [err |-> "cv2.error", self |-> self, hp |-> hp]
        ELSE [err |-> "", self |-> self, hp |-> [hp EXCEPT ![self.img] = Cv2Arith(s, r, sign)]]

CombineReturn(self) == None

\* a faulty variant: a mode that is not overlay or subtract is taken to be add
CombineDefaultsToAdd(hp, self, rhs, mode, bld) ==
    LET fail == [err |-> "ValueError", ret |-> None, self |-> self, hp |-> hp]
        done(x) == [err |-> x.err, ret |-> None, self |-> x.self, hp |-> x.hp]
    IN  IF Width(hp[rhs.img]) # Width(hp[self.img]) THEN fail
        ELSE IF Height(hp[rhs.img]) # Height(hp[self.img]) THEN fail
        ELSE IF mode = "overlay" THEN done(Overlay(hp, self, rhs, bld))
        ELSE IF mode = "subtract" THEN done(Cv2Into(hp, self, rhs, -1))
        ELSE done(Cv2Into(hp, self, rhs, 1))

\* self.combine(rhs, mode)
Combine(hp, self, rhs, mode, bld) ==
    LET fail == [err |-> "ValueError", ret |-> None, self |-> self, hp |-> hp]
        done(x) == [err |-> x.err, ret |-> IF x.err = "" THEN CombineReturn(self) ELSE None,
                    self |-> x.self, hp |-> x.hp]
    IN  IF Width(hp[rhs.img]) # Width(hp[self.img]) THEN fail
        ELSE IF Height(hp[rhs.img]) # Height(hp[self.img]) THEN fail
        ELSE IF mode = "overlay" THEN done(Overlay(hp, self, rhs, bld))
        ELSE IF mode = "add" THEN done(Cv2Into(hp, self, rhs, 1))
        ELSE IF mode = "subtract" THEN done(Cv2Into(hp, self, rhs, -1))
        ELSE fail

(***************************************************************************)
(* Canvas.cv2_draw.  The drawing callable func(img, *args) is any function *)
(* that writes into the array it is given: here it sets the pixels of a    *)
(* region to one colour (as many channels as the array has).               *)
(***************************************************************************)
Paint(a, region, col) ==
    [a EXCEPT !.data = [k \in DOMAIN a.data |->
        IF k \in region THEN SubSeq(col, 1, Channels(a)) ELSE a.data[k]]]

\* the regions a drawing callable paints: nothing, the first pixel, everything
RegionKinds == {"nothing", "first", "all"}

Region(a, kind) ==
    CASE kind = "nothing" -> {}
      [] kind = "first"   -> {k \in DOMAIN a.data : k = 1}
      [] kind = "all"     -> DOMAIN a.data

\* the rest of cv2_draw once the layer rhs is drawn: self.combine(rhs, mode=mode)
DrawLayered(res, layer) ==
    [called |-> TRUE, layer |-> layer, err |-> res.err, ret |-> None,
     self |-> res.self, hp |-> res.hp]

DrawOnBlank(new, self, region, col, mode, bld) ==
    DrawLayered(Combine([new.hp EXCEPT ![new.obj.img] = Paint(new.hp[new.obj.img], region, col)],
                        self, new.obj, mode, bld),
                Paint(new.hp[new.obj.img], region, col))

\* self.cv2_draw(func, args, mode)
Cv2Draw(hp, self, region, col, mode, bld) ==
    IF mode = "direct"
    THEN [called |-> FALSE, layer |-> Free, err |-> "", ret |-> None, self |-> self,
          hp |-> [hp EXCEPT ![self.img] = Paint(hp[self.img], region, col)]]
    ELSE DrawOnBlank(BlankOf(hp, self, NoBg), self, region, col, mode, bld)

(***************************************************************************)
(* Canvas.save and Canvas.load.  The file holds a 3-channel BGR image      *)
(* (a lossless format); NoFile is a path that does not exist.              *)
(***************************************************************************)
NoFile == Free

\* cv2.cvtColor(img, COLOR_RGB2BGR) and COLOR_BGR2RGB: 3 channels out, 0 and 2 swapped
SwapRB(a) ==
    [shape |-> <<Height(a), Width(a), 3>>,
     data  |-> [k \in DOMAIN a.data |-> <<a.data[k][3], a.data[k][2], a.data[k][1]>>]]

\* self.save(f_save): the file written, or an error on an empty image
Save(hp, self, file) ==
    IF IsEmpty(hp[self.img])
    THEN [err |-> "cv2.error", ret |-> None, file |-> file]
    ELSE [err |-> "", ret |-> None, file |-> SwapRB(hp[self.img])]

\* self.load(f_img): cv2.imread gives None for a missing file and cvtColor rejects it
Load(hp, self, file) ==
    IF file = NoFile
    THEN [err |-> "cv2.error", self |-> self, hp |-> hp]
    ELSE LET b == Alloc(hp)
         IN  [err |-> "", self |-> [self EXCEPT !.img = b], hp |-> [hp EXCEPT ![b] = SwapRB(file)]]

(***************************************************************************)
(* Canvas.rescale: cv2.resize(img, (0,0), fx, fy), bilinear, for the       *)
(* factors 0, 1 and 2.  OpenCV's 8-bit path: coefficients in 1/2048ths,    *)
(* a horizontal pass, then the vertical pass with its fixed-point cast.    *)
(***************************************************************************)
CoefOne == 2048

\* source index (0-based) and right-hand coefficient of destination index x
SrcAt(x, f, n) ==
    LET num == 2 * x + 1 - f
        sx  == IF num < 0 THEN -1 ELSE num \div (2 * f)
        rem == num - sx * 2 * f
    IN  IF sx < 0 THEN <<0, 0>>
        ELSE IF sx >= n - 1 THEN <<n - 1, 0>>
        ELSE <<sx, (rem * CoefOne) \div (2 * f)>>

Resize(a, fx, fy) ==
    LET h  == Height(a)
        w  == Width(a)
        h2 == h * fy
        w2 == w * fx
        at(y, x, i) == a.data[y * w + x + 1][i]
        hpass(y, x, i) ==
            LET sa == SrcAt(x, fx, w)
            IN  at(y, sa[1], i) * (CoefOne - sa[2])
                + (IF sa[2] = 0 THEN 0 ELSE at(y, sa[1] + 1, i) * sa[2])
        vpass(y, x, i) ==
            LET sa == SrcAt(y, fy, h)
                s0 == hpass(sa[1], x, i)
                s1 == IF sa[2] = 0 THEN 0 ELSE hpass(sa[1] + 1, x, i)
            IN  Saturate(((((CoefOne - sa[2]) * (s0 \div 16)) \div 65536)
                          + ((sa[2] * (s1 \div 16)) \div 65536) + 2) \div 4)
    IN  [shape |-> <<h2, w2, Channels(a)>>,
         data  |-> [k \in 1..(h2 * w2) |->
                      [i \in 1..Channels(a) |-> vpass((k - 1) \div w2, (k - 1) % w2, i)]]]

\* self.rescale(dx, dy); dy is <<>> when not given
Rescale(hp, self, dx, dy) ==
    LET fy == IF dy = <<>> THEN dx ELSE dy[1]
        a  == hp[self.img]
    IN  IF IsEmpty(a) \/ dx = 0 \/ fy = 0
        THEN [err |-> "cv2.error", self |-> self, hp |-> hp]
        ELSE LET b == Alloc(hp)
             IN  [err |-> "", self |-> [self EXCEPT !.img = b],
                  hp |-> [hp EXCEPT ![b] = Resize(a, dx, fy)]]

(***************************************************************************)
(* Canvas.transform_length and Canvas.transform_kernel_length, for a       *)
(* double r >= 0, an integer width and an integer-valued extent > 0.       *)
(***************************************************************************)
\* r * (self.width / self.extent), is_discrete=False
transform_length(r, width, extent) == FMul(r, FDivInt(width, extent))

\* x % 2 of a double x >= 0 (exact)
FMod2(x) == BNorm([i \in 1..Min(Len(x), FracLimbs + 1) |->
                     IF i = FracLimbs + 1 THEN x[i] % 2 ELSE x[i]])

\* x < 1 for a double x >= 0
FBelowOne(x) == BBitLen(x) <= FracBits

KernelSnap(raw) ==
    LET remainder == FMod2(raw)
        r         == FTrunc(BSub(raw, remainder))
    IN  r + (IF FBelowOne(remainder) THEN -1 ELSE 1)

\* a faulty variant: the floor of 1 is left out
KernelNoFloor(r, width, extent) == KernelSnap(transform_length(r, width, extent))

transform_kernel_length(r, width, extent) == Max(1, KernelSnap(transform_length(r, width, extent)))

(***************************************************************************)
(* The calling program: canvas variables, the heap of arrays, one file.    *)
(***************************************************************************)
VARIABLES
    canvases,   \* canvas variable -> the Canvas object bound to it, or NoCanvas
    heap,       \* array id -> array
    disk,       \* the image file, or NoFile
    build,      \* how the OpenCV build evaluates addWeighted
    steps,      \* operations done
    last,       \* the last operation: its name, arguments, error and return value
    call,       \* the combine call the last operation made, or NoCall
    pre         \* canvases and heap before the last operation

vars == <<canvases, heap, disk, build, steps, last, call, pre>>

Bound(c) == canvases[c] # NoCanvas

Img(c) == heap[canvases[c].img]

PreImg(c) == pre.hp[pre.cv[c].img]

Snapshot == [cv |-> canvases, hp |-> heap]

Builds == {"plain", "fma"}

\* widths and heights a program may ask for
AnyDims == (-1)..MaxDim

Dims == 1..MaxDim

AnyExtents == {-1, 0, 2, 4}

Backgrounds == {Named("black"), Explicit(<<33, 132, 255>>)}

\* colours an artist draws with, after transform_color
DrawColours == {transform_color(Named("white")), transform_color(Explicit(<<33, 132, 200, 100>>))}

Modes == {"overlay", "add", "subtract", "blend"}

Factors == {0, 1, 2}

Init ==
    /\ canvases = [c \in CanvasIds |-> NoCanvas]
    /\ heap = [b \in BufIds |-> Free]
    /\ disk = NoFile
    /\ build \in Builds
    /\ steps = 0
    /\ last = [op |-> "init", self |-> None, err |-> "", ret |-> None]
    /\ call = NoCall
    /\ pre = [cv |-> [c \in CanvasIds |-> NoCanvas], hp |-> [b \in BufIds |-> Free]]

\* the end of every operation: the new bindings, with unreferenced arrays released
Settle(new) ==
    /\ canvases' = new.cv
    /\ heap' = new.hp

Finish(cv, hp) ==
    /\ Settle(Collect(cv, hp))
    /\ pre' = Snapshot
    /\ steps' = steps + 1
    /\ UNCHANGED build

\* c = Canvas(w, h, e, bg)
Created(c, w, h, e, bg, new) ==
    /\ Finish(IF new.err = "" THEN [canvases EXCEPT ![c] = new.obj] ELSE canvases, new.hp)
    /\ last' = [op |-> "create", self |-> c, err |-> new.err,
                ret |-> IF new.err = "" THEN c ELSE None,
                width |-> w, height |-> h, extent |-> e, bg |-> bg]
    /\ call' = NoCall
    /\ UNCHANGED disk

Create(c, w, h, e, bg) ==
    /\ steps < MaxOps
    /\ Created(c, w, h, e, bg, NewCanvas(heap, w, h, e, bg))

\* d = c.blank(bg)
Blanked(c, d, bg, new) ==
    /\ Finish(IF new.err = "" THEN [canvases EXCEPT ![d] = new.obj] ELSE canvases, new.hp)
    /\ last' = [op |-> "blank", self |-> c, err |-> new.err,
                ret |-> IF new.err = "" THEN d ELSE None, bg |-> bg]
    /\ call' = NoCall
    /\ UNCHANGED disk

Blank(c, d, bg) ==
    /\ steps < MaxOps
    /\ Bound(c)
    /\ Blanked(c, d, bg, BlankOf(heap, canvases[c], bg))

\* c.combine(d, mode)
Combined(c, d, mode, res) ==
    /\ Finish([canvases EXCEPT ![c] = res.self], res.hp)
    /\ last' = [op |-> "combine", self |-> c, err |-> res.err, ret |-> res.ret,
                rhs |-> d, mode |-> mode]
    /\ call' = [self |-> c, mode |-> mode, layer |-> Img(d), base |-> Img(c),
                err |-> res.err, ret |-> res.ret]
    /\ UNCHANGED disk

CombineOp(c, d, mode) ==
    /\ steps < MaxOps
    /\ Bound(c) /\ Bound(d)
    /\ Combined(c, d, mode, Combine(heap, canvases[c], canvases[d], mode, build))

\* c.cv2_draw(func, args, mode)
Drawn(c, region, col, mode, res) ==
    /\ Finish([canvases EXCEPT ![c] = res.self], res.hp)
    /\ last' = [op |-> "cv2_draw", self |-> c, err |-> res.err, ret |-> res.ret,
                region |-> region, colour |-> col, mode |-> mode]
    /\ call' = IF res.called
               THEN [self |-> c, mode |-> mode, layer |-> res.layer, base |-> Img(c),
                     err |-> res.err, ret |-> res.ret]
               ELSE NoCall
    /\ UNCHANGED disk

Cv2DrawOp(c, region, col, mode) ==
    /\ steps < MaxOps
    /\ Bound(c)
    /\ Drawn(c, region, col, mode,
             Cv2Draw(heap, canvases[c], Region(Img(c), region), col, mode, build))

\* c.save(f)
Saved(c, res) ==
    /\ disk' = res.file
    /\ last' = [op |-> "save", self |-> c, err |-> res.err, ret |-> res.ret]
    /\ Finish(canvases, heap)
    /\ call' = NoCall

SaveOp(c) ==
    /\ steps < MaxOps
    /\ Bound(c)
    /\ Saved(c, Save(heap, canvases[c], disk))

\* c.load(f)
Loaded(c, res) ==
    /\ Finish([canvases EXCEPT ![c] = res.self], res.hp)
    /\ last' = [op |-> "load", self |-> c, err |-> res.err,
                ret |-> IF res.err = "" THEN c ELSE None]
    /\ call' = NoCall
    /\ UNCHANGED disk

LoadOp(c) ==
    /\ steps < MaxOps
    /\ Bound(c)
    /\ Loaded(c, Load(heap, canvases[c], disk))

\* c.rescale(dx, dy); results larger than MaxDim are outside the model
Rescaled(c, dx, dy, res) ==
    /\ Finish([canvases EXCEPT ![c] = res.self], res.hp)
    /\ last' = [op |-> "rescale", self |-> c, err |-> res.err, ret |-> None,
                dx |-> dx, dy |-> dy]
    /\ call' = NoCall
    /\ UNCHANGED disk

RescaleOp(c, dx, dy) ==
    /\ steps < MaxOps
    /\ Bound(c)
    /\ Width(Img(c)) * dx <= MaxDim
    /\ Height(Img(c)) * (IF dy = <<>> THEN dx ELSE dy[1]) <= MaxDim
    /\ Rescaled(c, dx, dy, Rescale(heap, canvases[c], dx, dy))

\* c.transform_kernel_length(r): a query, no state of the canvas changes
KernelOp(c, r) ==
    /\ Bound(c)
    /\ canvases[c].extent > 0
    /\ last' = [op |-> "transform_kernel_length", self |-> c, err |-> "",
                ret |-> transform_kernel_length(r, Width(Img(c)), canvases[c].extent),
                r |-> r,
                raw |-> transform_length(r, Width(Img(c)), canvases[c].extent)]
    /\ call' = NoCall
    /\ pre' = Snapshot
    /\ UNCHANGED <<canvases, heap, disk, build, steps>>

\* programs that composite: canvases of positive size, the default extent
Next ==
    \/ \E c \in CanvasIds, w \in Dims, h \in Dims, bg \in Backgrounds :
           Create(c, w, h, DefaultExtent, bg)
    \/ \E c \in CanvasIds, d \in CanvasIds, bg \in {NoBg, Named("black")} : Blank(c, d, bg)
    \/ \E c \in CanvasIds, d \in CanvasIds, mode \in Modes : CombineOp(c, d, mode)
    \/ \E c \in CanvasIds, region \in RegionKinds, col \in DrawColours,
          mode \in Modes \cup {"direct"} : Cv2DrawOp(c, region, col, mode)
    \/ \E c \in CanvasIds : SaveOp(c)
    \/ \E c \in CanvasIds : LoadOp(c)
    \/ \E c \in CanvasIds, dx \in Factors, dy \in {<<>>} \cup {<<f>> : f \in Factors} :
           RescaleOp(c, dx, dy)

Spec == Init /\ [][Next]_vars

\* programs that construct one canvas from any arguments, then blank and draw
NextCreate ==
    \/ \E w \in AnyDims, h \in AnyDims, e \in AnyExtents, bg \in Backgrounds :
           steps = 0 /\ Create(1, w, h, e, bg)
    \/ \E c \in CanvasIds, d \in CanvasIds, bg \in {NoBg} \cup Backgrounds : Blank(c, d, bg)
    \/ \E c \in CanvasIds, region \in RegionKinds, col \in DrawColours :
           Cv2DrawOp(c, region, col, "direct")

SpecCreate == Init /\ [][NextCreate]_vars

\* programs that hold one canvas and ask it for kernel lengths
MaxRNum == 40

KernelWidths == {1, 3, 200}

KernelExtents == {1, 2, 4}

\* the doubles 0.0, 0.1, 0.2, ...
KernelLengths == {FDivInt(n, 10) : n \in 0..MaxRNum}

InitKernel ==
    /\ \E w \in KernelWidths, e \in KernelExtents :
          /\ canvases = [c \in CanvasIds |->
                 IF c = 1 THEN NewCanvas([b \in BufIds |-> Free], w, 1, e, Named("black")).obj
                 ELSE NoCanvas]
          /\ heap = NewCanvas([b \in BufIds |-> Free], w, 1, e, Named("black")).hp
    /\ disk = NoFile
    /\ build \in Builds
    /\ steps = 0
    /\ last = [op |-> "init", self |-> None, err |-> "", ret |-> None]
    /\ call = NoCall
    /\ pre = [cv |-> [c \in CanvasIds |-> NoCanvas], hp |-> [b \in BufIds |-> Free]]

NextKernel == \E c \in CanvasIds, r \in KernelLengths : KernelOp(c, r)

SpecKernel == InitKernel /\ [][NextKernel]_vars

(***************************************************************************)
(* Properties.                                                             *)
(***************************************************************************)
ValidModes == {"overlay", "add", "subtract"}

\* the last operation called combine (directly or from cv2_draw) and overlay ran to its end
Overlaid == call # NoCall /\ call.mode = "overlay" /\ call.err = ""

Pixels(a) == DOMAIN a.data

AlphaEverywhere(a, v) == Channels(a) = 4 /\ \A k \in Pixels(a) : a.data[k][4] = v

Rgb(px) == SubSeq(px, 1, 3)

\* C1: after overlay(base, layer) every pixel's alpha is min(255, a + b), a saturating
\* sum of the base alpha a and the layer alpha b, never (a + b) mod 256.
C1_SaturatingAlpha ==
    Overlaid =>
        \A k \in Pixels(call.base) :
            Img(call.self).data[k][4] = Min(255, call.base.data[k][4] + call.layer.data[k][4])

\* C2: combine(layer, "overlay") with a layer of alpha 255 everywhere leaves the base
\* with the layer's RGB and alpha 255 at every pixel.
C2_OpaqueLayerReproduced ==
    (Overlaid /\ AlphaEverywhere(call.layer, 255)) =>
        \A k \in Pixels(call.base) :
            /\ Rgb(Img(call.self).data[k]) = Rgb(call.layer.data[k])
            /\ Img(call.self).data[k][4] = 255

\* C3: combine fails whenever the widths differ, the heights differ or the mode is
\* not overlay/add/subtract, and the receiver's array is then what it was before.
Mismatched ==
    \/ Width(call.layer) # Width(call.base)
    \/ Height(call.layer) # Height(call.base)
    \/ call.mode \notin ValidModes

C4_ReturnsReceiver ==
    (last.op = "combine" /\ last.err = "") => last.ret = last.self

\* C5: base.combine(layer, mode) leaves the layer's array, width, height, extent and
\* background as they were, whether it succeeds or fails, and two canvases never
\* share one array.
NoSharedArray ==
    \A c \in CanvasIds, d \in CanvasIds :
        (c # d /\ Bound(c) /\ Bound(d)) => canvases[c].img # canvases[d].img

C5_LayerUntouched ==
    /\ NoSharedArray
    /\ (last.op = "combine" /\ last.rhs # last.self) =>
           /\ Img(last.rhs) = PreImg(last.rhs)
           /\ canvases[last.rhs].extent = pre.cv[last.rhs].extent
           /\ canvases[last.rhs].bg = pre.cv[last.rhs].bg

\* a successful combine that changed the receiver and not the layer
C5_Witness ==
    /\ last.op = "combine" /\ last.rhs # last.self /\ last.err = ""
    /\ Img(last.self) # PreImg(last.self)
    /\ Img(last.rhs) = PreImg(last.rhs)
    /\ \E k \in Pixels(Img(last.rhs)) : Img(last.rhs).data[k][1] # 0

\* C6: blank() returns a new canvas with the receiver's width, height and extent,
\* every pixel the chosen background with alpha 0, and leaves the receiver as it was.
C6_BlankKeepsGeometry ==
    (last.op = "blank" /\ last.err = "" /\ pre.cv[last.self].extent > 0
        /\ ~IsEmpty(PreImg(last.self))) =>
        LET new  == canvases[last.ret]
            old  == pre.cv[last.self]
            used == IF last.bg = NoBg THEN old.bg ELSE last.bg
        IN  /\ Width(heap[new.img]) = Width(PreImg(last.self))
            /\ Height(heap[new.img]) = Height(PreImg(last.self))
            /\ new.extent = old.extent
            /\ \A k \in Pixels(heap[new.img]) : heap[new.img].data[k] = BgPixel(used)
            /\ (last.ret # last.self =>
                   canvases[last.self].extent = old.extent /\ canvases[last.self].bg = old.bg
                   /\ Img(last.self) = PreImg(last.self))

\* C7: creating a canvas fails, and yields no canvas, whenever width <= 0 or
\* height <= 0 or extent <= 0; for positive arguments it succeeds with an array of
\* shape (height, width, 4) whose every pixel is the background with alpha 0.
C7_CreateValidates ==
    last.op = "create" =>
        IF last.width <= 0 \/ last.height <= 0 \/ last.extent <= 0
        THEN last.err # "" /\ canvases = pre.cv
        ELSE /\ last.err = ""
             /\ Img(last.self).shape = <<last.height, last.width, 4>>
             /\ \A k \in Pixels(Img(last.self)) : Img(last.self).data[k] = BgPixel(last.bg)

\* C8: transform_kernel_length(r) is an odd integer >= 1; when the raw length
\* r*width/extent is exactly an even integer L >= 2 it is L-1 or L+1, and when the
\* raw length is exactly an odd integer L it is L.
IsWhole(x) == BLowZero(x, FracBits)

C8_KernelOdd ==
    last.op = "transform_kernel_length" =>
        LET L == FTrunc(last.raw)
        IN  /\ last.ret >= 1 /\ last.ret % 2 = 1
            /\ (IsWhole(last.raw) /\ L % 2 = 0 /\ L >= 2) => last.ret \in {L - 1, L + 1}
            /\ (IsWhole(last.raw) /\ L % 2 = 1) => last.ret = L

\* extent 4, width 200, r 0.1 gives 5
C8_Witness ==
    /\ last.op = "transform_kernel_length"
    /\ Width(Img(last.self)) = 200 /\ canvases[last.self].extent = 4
    /\ last.r = FDivInt(1, 10)
    /\ last.ret = 5

\* C9: every canvas's array has 4 channels per pixel, shape (height, width, 4), and
\* every channel value is an integer in 0..255.
C9_FourChannels ==
    \A c \in CanvasIds :
        Bound(c) =>
            /\ Channels(Img(c)) = 4
            /\ Len(Img(c).data) = Height(Img(c)) * Width(Img(c))
            /\ \A k \in Pixels(Img(c)) :
                   Len(Img(c).data[k]) = 4 /\ \A i \in 1..4 : Img(c).data[k][i] \in Byte

\* C10: overlaying a layer whose alpha is 0 everywhere leaves every base pixel's
\* R, G, B and alpha as they were.
C10_TransparentLayerIdentity ==
    (call # NoCall /\ call.mode = "overlay" /\ AlphaEverywhere(call.layer, 0)
        /\ Width(call.layer) = Width(call.base) /\ Height(call.layer) = Height(call.base)) =>
        Img(call.self) = call.base

====
